---- MODULE Spec2Model ----
(***************************************************************************)
(* A model of src/src/app.rs: the flashcard application HttpApp.  The      *)
(* per-frame handler HttpApp::update is one action (Update); the          *)
(* completion callback handed to ehttp::fetch is the other                 *)
(* (FetchCallback).  The record store is the set of rows of table card;    *)
(* the egui context's byte cache is the set of URIs it holds bytes for.    *)
(*                                                                         *)
(* Strings that the code inspects character by character (URLs, content    *)
(* types) are sequences of tokens, "." and "/" being tokens of their own.  *)
(* Option<T> values that the code only tests for presence are booleans.    *)
(* The columns last_question_viewed_ms and last_answer_viewed_ms and the   *)
(* table cardlog are never read or written by update and are left out.     *)
(***************************************************************************)
EXTENDS Integers, Sequences, FiniteSets

VARIABLES
    cards,          \* rows of table card (the record store)
    line_selected,  \* HttpApp.line_selected
    url,            \* HttpApp.url
    promise,        \* HttpApp.promise
    inflight,       \* requests handed to ehttp::fetch whose callback has not run
    n_fetches,      \* number of fetches started so far (names the fetches)
    n_enter,        \* number of Enter presses handled so far
    image_bytes,    \* URIs the egui context holds included bytes for
    frame,          \* what the last frame did: its key, selection after the key, listing, edit
    polled          \* what the last frame's promise.ready() poll observed

vars == <<cards, line_selected, url, promise, inflight, n_fetches, n_enter, image_bytes, frame, polled>>

(***************************************************************************)
(* Bounds                                                                  *)
(***************************************************************************)
MaxCards == 3
MaxEdits == 1
MaxFetches == 3

(***************************************************************************)
(* Card and its store                                                      *)
(***************************************************************************)
\* Option<i64>::None for rowid; SQLite assigns rowids from 1.
NoRowid == 0

\* The column defaults declared by #[turbosql(sql_default = ...)].
SqlDefaultTitle == "(no title)"
SqlDefaultQuestion == "question goes here"
SqlDefaultAnswer == "answer goes here"

\* Card::default(): #[derive(Default)] gives None, false and empty strings.
CardDefault ==
    [rowid |-> NoRowid, deleted |-> FALSE, title |-> "", question |-> "", answer |-> ""]

Fields == {"title", "question", "answer"}

\* The texts a text edit can be changed to.
EditTexts == {"x"}

Rowids(cs) == {c.rowid : c \in cs}

MaxOf(S) == CHOOSE m \in S : \A n \in S : n <= m
MinOf(S) == CHOOSE m \in S : \A n \in S : m <= n

\* SQLite's rowid for a row inserted with rowid NULL: one more than the largest in the table.
NextRowidFirst(cs) == 1
NextRowid(cs) == IF cs = {} THEN 1 ELSE MaxOf(Rowids(cs)) + 1

\* Card::insert(): the struct's fields are bound as the new row's columns.
Insert(cs, c) ==
    cs \cup {[c EXCEPT !.rowid = IF c.rowid = NoRowid THEN NextRowid(cs) ELSE c.rowid]}

\* A query result of one nullable integer: a value, or SQL NULL.
SqlInt(n) == [null |-> FALSE, val |-> n]
SqlNull == [null |-> TRUE, val |-> 0]

\* "MIN(rowid) FROM card WHERE NOT deleted AND rowid > n": NULL over no rows.
MinRowidAfterOrEqual(cs, n) ==
    LET rows == {c.rowid : c \in {d \in cs : ~d.deleted /\ d.rowid >= n}}
    IN  IF rows = {} THEN SqlNull ELSE SqlInt(MinOf(rows))
MinRowidAfter(cs, n) ==
    LET rows == {c.rowid : c \in {d \in cs : ~d.deleted /\ d.rowid > n}}
    IN  IF rows = {} THEN SqlNull ELSE SqlInt(MinOf(rows))

\* "MAX(rowid) FROM card WHERE NOT deleted AND rowid < n".
MaxRowidBefore(cs, n) ==
    LET rows == {c.rowid : c \in {d \in cs : ~d.deleted /\ d.rowid < n}}
    IN  IF rows = {} THEN SqlNull ELSE SqlInt(MaxOf(rows))

\* select!(i64 ...).unwrap_or(dflt): NULL does not convert to i64, so the select is an Err.
UnwrapOr(r, dflt) == IF r.null THEN dflt ELSE r.val

\* "card SET deleted = 1 WHERE rowid = id".
SoftDelete(cs, id) ==
    {IF c.rowid = id THEN [c EXCEPT !.deleted = TRUE] ELSE c : c \in cs}

\* "card SET <field> = text WHERE rowid = id"; no row matching is Ok(0 rows), and the result is dropped.
UpdateAllRows(cs, field, text, id) ==
    {[c EXCEPT ![field] = text] : c \in cs}
UpdateField(cs, field, text, id) ==
    {IF c.rowid = id THEN [c EXCEPT ![field] = text] ELSE c : c \in cs}

\* The rows in rowid order, as a table scan returns them.
RECURSIVE InRowidOrder(_)
InRowidOrder(cs) ==
    IF cs = {} THEN <<>>
    ELSE LET first == CHOOSE c \in cs : \A d \in cs : c.rowid <= d.rowid
         IN  <<first>> \o InRowidOrder(cs \ {first})

\* select!(Vec<Card> "WHERE NOT deleted").
ListAll(cs) == InRowidOrder(cs)
ListActive(cs) == InRowidOrder({c \in cs : ~c.deleted})

\* select!(Card "WHERE rowid = " id).unwrap_or_default().
SelectCard(cs, id) ==
    IF \E c \in cs : c.rowid = id THEN CHOOSE c \in cs : c.rowid = id ELSE CardDefault

(***************************************************************************)
(* The keyboard part of update (ctx.input)                                 *)
(***************************************************************************)
Keys == {"None", "ArrowDown", "ArrowUp", "Enter", "Backspace"}

ArrowDown(cs, sel) == UnwrapOr(MinRowidAfter(cs, sel), sel)
ArrowUp(cs, sel) == UnwrapOr(MaxRowidBefore(cs, sel), sel)

\* Backspace: soft-delete the selected row, then select the next active one, or 0.
BackspaceStay(cs, sel) ==
    [cards |-> SoftDelete(cs, sel), sel |-> UnwrapOr(MinRowidAfter(SoftDelete(cs, sel), sel), sel)]
Backspace(cs, sel) ==
    [cards |-> SoftDelete(cs, sel), sel |-> UnwrapOr(MinRowidAfter(SoftDelete(cs, sel), sel), 0)]

\* The if / else-if chain over key_pressed: the store and selection after it.
KeyInput(cs, sel, key) ==
    CASE key = "ArrowDown" -> [cards |-> cs, sel |-> ArrowDown(cs, sel)]
      [] key = "ArrowUp"   -> [cards |-> cs, sel |-> ArrowUp(cs, sel)]
      [] key = "Enter"     -> [cards |-> Insert(cs, CardDefault), sel |-> sel]
      [] key = "Backspace" -> Backspace(cs, sel)
      [] OTHER             -> [cards |-> cs, sel |-> sel]

(***************************************************************************)
(* Strings the code takes apart                                            *)
(***************************************************************************)
\* str::starts_with.
StartsWith(s, prefix) ==
    /\ Len(prefix) <= Len(s)
    /\ \A i \in 1..Len(prefix) : s[i] = prefix[i]

\* str::rsplitn(2, '.') collected: the part after the last '.', then the part before it;
\* the whole string, alone, when it holds no '.'.
RSplitN2(s) ==
    LET dots == {i \in 1..Len(s) : s[i] = "."}
    IN  IF dots = {} THEN <<s>>
        ELSE <<SubSeq(s, MaxOf(dots) + 1, Len(s)), SubSeq(s, 1, MaxOf(dots) - 1)>>

ImagePrefix == <<"image", "/">>
ImagePng == <<"image", "/", "png">>
TextPlain == <<"text", "/", "plain">>

\* Header values of Content-Type a response may carry; <<>> stands for none (unwrap_or_default).
ContentTypes == {<<>>, ImagePng, TextPlain, <<"image">>}

UrlA == <<"a", ".", "md">>
UrlB == <<"b">>
\* What the user may have typed into the URL field.
TypedUrls == {UrlA, UrlB}

\* i.time at the frame of a "Random image" click.
Seeds == {"1"}
\* format!("https://picsum.photos/seed/{seed}/{side}") with side = 640.
RandomUrl(seed) == <<"https://picsum", ".", "photos/seed/", seed, "/", "640">>

(***************************************************************************)
(* Resource                                                                *)
(***************************************************************************)
\* A Resource: the response's url and which of its Option fields are Some.
NoResource == [url |-> <<>>, image |-> FALSE, text |-> FALSE, colored_text |-> FALSE]

\* syntax_highlighting: None only when rsplitn yields no first piece.
syntax_highlighting(response) ==
    LET extension_and_rest == RSplitN2(response.url)
    IN  Len(extension_and_rest) > 0

\* Resource::from_response.  response.text() is Some exactly when the body is valid UTF-8.
from_response_text_kept(response) ==
    IF StartsWith(response.content_type, ImagePrefix)
    THEN [url |-> response.url, image |-> TRUE, text |-> response.utf8, colored_text |-> FALSE]
    ELSE [url |-> response.url, image |-> FALSE, text |-> response.utf8,
          colored_text |-> response.utf8 /\ syntax_highlighting(response)]
from_response(response) ==
    IF StartsWith(response.content_type, ImagePrefix)
    THEN [url |-> response.url, image |-> TRUE, text |-> FALSE, colored_text |-> FALSE]
    ELSE [url |-> response.url, image |-> FALSE, text |-> response.utf8,
          colored_text |-> response.utf8 /\ syntax_highlighting(response)]

\* The branch ui_resource takes to show a Resource.
Shown(resource) ==
    IF resource.image THEN "image"
    ELSE IF resource.colored_text THEN "colored_text"
    ELSE IF resource.text THEN "text"
    ELSE "binary"

(***************************************************************************)
(* The promise: one channel per fetch                                      *)
(***************************************************************************)
\* ehttp::Result<Resource> as sent by fetch `by`: Ok(resource) or Err.
NoResult == [by |-> 0, ok |-> FALSE, resource |-> NoResource]

\* HttpApp.promise = None.
NoPromise == [some |-> FALSE, id |-> 0, ready |-> FALSE, result |-> NoResult]

\* Promise::new() stored into self.promise: the handle of fetch id, nothing sent yet.
StartFetchKeepOld(p, id) ==
    IF p.some THEN p ELSE [some |-> TRUE, id |-> id, ready |-> FALSE, result |-> NoResult]
StartFetch(p, id) == [some |-> TRUE, id |-> id, ready |-> FALSE, result |-> NoResult]

\* sender.send(result) by fetch id: it reaches the promise made with that sender; when
\* that promise has been replaced, the value is dropped.
SendToStored(p, id, result) ==
    IF p.some THEN [p EXCEPT !.ready = TRUE, !.result = result] ELSE p
Send(p, id, result) ==
    IF p.some /\ p.id = id THEN [p EXCEPT !.ready = TRUE, !.result = result] ELSE p

\* if let Some(promise) = &self.promise { promise.ready() ... }: what the frame shows.
Poll(p) ==
    IF ~p.some THEN [kind |-> "none", result |-> NoResult]
    ELSE IF p.ready THEN [kind |-> "ready", result |-> p.result]
    ELSE [kind |-> "pending", result |-> NoResult]

\* ctx.forget_image(uri); ctx.include_bytes(uri, bytes).
ForgetImage(cache, uri) == cache \ {uri}
IncludeBytes(cache, uri) == cache \cup {uri}

\* ui_url: the URL field holds `typed` after the text edit; a fetch is triggered when the
\* field lost focus or "Random image" was clicked, which also rewrites the URL.
ui_url(typed, lost_focus, random_clicked, seed) ==
    [url |-> IF random_clicked THEN RandomUrl(seed) ELSE typed,
     trigger_fetch |-> lost_focus \/ random_clicked]

(***************************************************************************)
(* State                                                                   *)
(***************************************************************************)
\* No frame drawn yet in this session.
NoFrame ==
    [drawn |-> FALSE, key |-> "None", after_key |-> 0, listed |-> <<>>, edit |-> "none", text |-> ""]

\* HttpApp::new: Self::default(), over a store that no session has written to yet.
Init ==
    /\ cards = {}
    /\ line_selected = 0
    /\ url = <<>>
    /\ promise = NoPromise
    /\ inflight = {}
    /\ n_fetches = 0
    /\ n_enter = 0
    /\ image_bytes = {}
    /\ frame = NoFrame
    /\ polled = Poll(NoPromise)

\* Fields that hold an edited text.
NumEdited(cs) ==
    Cardinality({c \in cs : c.title \in EditTexts})
    + Cardinality({c \in cs : c.question \in EditTexts})
    + Cardinality({c \in cs : c.answer \in EditTexts})

RowidsOf(listing) == [i \in 1..Len(listing) |-> listing[i].rowid]

(***************************************************************************)
(* HttpApp::update: one frame.  Its inputs are the key pressed, the label  *)
(* clicked (0: none), the text edit that changed (only the focused one can *)
(* change in a frame) with its new text, the URL field's text after the    *)
(* frame's typing, whether the field lost focus, and whether "Random       *)
(* image" was clicked.  The fetch closure runs on the HTTP client's thread *)
(* and is an action of its own, taken between frames.                      *)
(***************************************************************************)
Update(key, click, edit, text, typed, lost_focus, random_clicked, seed) ==
    LET k == KeyInput(cards, line_selected, key)
        listing == ListActive(k.cards)
        sel == IF click = 0 THEN k.sel ELSE click
        card == SelectCard(k.cards, sel)
        prev_url == url
        u == ui_url(typed, lost_focus, random_clicked, seed)
        id == n_fetches + 1
    IN  /\ key = "Enter" => Cardinality(cards) < MaxCards
        /\ click = 0 \/ \E i \in 1..Len(listing) : listing[i].rowid = click
        /\ edit # "none" => /\ text # card[edit]
                            /\ NumEdited(k.cards) < MaxEdits
        /\ u.trigger_fetch => n_fetches < MaxFetches
        /\ cards' = IF edit = "none" THEN k.cards ELSE UpdateField(k.cards, edit, text, sel)
        /\ line_selected' = sel
        /\ n_enter' = IF key = "Enter" THEN n_enter + 1 ELSE n_enter
        /\ url' = u.url
        /\ promise' = IF u.trigger_fetch THEN StartFetch(promise, id) ELSE promise
        /\ inflight' = IF u.trigger_fetch
                       THEN inflight \cup {[id |-> id, url |-> u.url, prev_url |-> prev_url]}
                       ELSE inflight
        /\ n_fetches' = IF u.trigger_fetch THEN id ELSE n_fetches
        /\ frame' = [drawn |-> TRUE, key |-> key, after_key |-> k.sel, listed |-> RowidsOf(listing),
                     edit |-> edit, text |-> IF edit = "none" THEN "" ELSE text]
        /\ polled' = Poll(promise')
        /\ UNCHANGED image_bytes

(***************************************************************************)
(* The closure given to ehttp::fetch, run once when the request ends       *)
(***************************************************************************)
\* What the HTTP client hands the closure: Err, or (for a URL that is not empty) a
\* response, whose url is the requested one when nothing redirects.
Responses(req) ==
    {[ok |-> FALSE, url |-> req.url, content_type |-> <<>>, utf8 |-> FALSE]}
    \cup (IF req.url = <<>> THEN {}
          ELSE {[ok |-> TRUE, url |-> req.url, content_type |-> ct, utf8 |-> u] :
                   ct \in ContentTypes, u \in BOOLEAN})

FetchCallback(req, response) ==
    LET forgotten == ForgetImage(image_bytes, req.prev_url)
        resource == IF response.ok THEN from_response(response) ELSE NoResource
        result == [by |-> req.id, ok |-> response.ok, resource |-> resource]
    IN  /\ req \in inflight
        /\ response \in Responses(req)
        /\ image_bytes' = IF response.ok /\ resource.image
                          THEN IncludeBytes(forgotten, response.url)
                          ELSE forgotten
        /\ promise' = Send(promise, req.id, result)
        /\ inflight' = inflight \ {req}
        /\ UNCHANGED <<cards, line_selected, url, n_fetches, n_enter, frame, polled>>

(***************************************************************************)
(* The application is closed and started again: HttpApp::new gives         *)
(* Self::default() over the store the earlier session left; the requests   *)
(* and the egui context of the old process are gone.                       *)
(***************************************************************************)
Restart ==
    /\ line_selected' = 0
    /\ url' = <<>>
    /\ promise' = NoPromise
    /\ inflight' = {}
    /\ image_bytes' = {}
    /\ frame' = NoFrame
    /\ polled' = Poll(NoPromise)
    /\ UNCHANGED <<cards, n_fetches, n_enter>>

(***************************************************************************)
(* Specifications                                                          *)
(***************************************************************************)
\* No click (0), or the identifier of the label clicked.
ClickTargets == 0..MaxCards

\* Frames in which the user works on cards and leaves the URL field alone.
CardFrame ==
    \E key \in Keys, click \in ClickTargets, edit \in Fields \cup {"none"}, text \in EditTexts :
        Update(key, click, edit, text, url, FALSE, FALSE, "1")

\* Frames in which the user works on the URL field and leaves the cards alone.
FetchFrame ==
    \E typed \in TypedUrls \cup {url}, lost_focus \in BOOLEAN,
       random_clicked \in BOOLEAN, seed \in Seeds :
        Update("None", 0, "none", "", typed, lost_focus, random_clicked, seed)

Callback == \E req \in inflight : \E response \in Responses(req) : FetchCallback(req, response)

NextCards == CardFrame \/ Restart
NextFetch == FetchFrame \/ Callback \/ Restart
Next == CardFrame \/ FetchFrame \/ Callback \/ Restart

\* The card store and the fetch pipeline share no state: each is explored on its own.
SpecCards == Init /\ [][NextCards]_vars
SpecFetch == Init /\ [][NextFetch]_vars
Spec == Init /\ [][Next]_vars

(***************************************************************************)
(* Properties                                                              *)
(***************************************************************************)
Active(cs) == {c.rowid : c \in {d \in cs : ~d.deleted}}
Deleted(cs) == {c.rowid : c \in {d \in cs : d.deleted}}
Listed(f) == {f.listed[i] : i \in 1..Len(f.listed)}

\* C1: the listing of a frame holds no soft-deleted identifier, an ArrowDown or ArrowUp
\* never selects a soft-deleted identifier, and a soft-deleted row stays in the store.
C1_State ==
    /\ Listed(frame) \cap Deleted(cards) = {}
    /\ frame.key \in {"ArrowDown", "ArrowUp"} => frame.after_key \notin Deleted(cards)
C1_Step == \A c \in cards : c.deleted => \E d \in cards' : d.rowid = c.rowid /\ d.deleted
C1_SoftDeletedHidden == [](C1_State) /\ [][C1_Step]_vars

C1_Witness ==
    /\ frame.key = "ArrowDown"
    /\ frame.after_key = 3
    /\ Deleted(cards) = {2}
    /\ frame.listed = <<1, 3>>

\* C3 as claimed: Enter on an empty store leaves exactly one card, not deleted, holding
\* the placeholder title, question and answer.
C3_EnterOnEmptyGivesPlaceholders ==
    (frame.key = "Enter" /\ n_enter = 1 /\ frame.edit = "none") =>
        cards = {[rowid |-> 1, deleted |-> FALSE, title |-> SqlDefaultTitle,
                  question |-> SqlDefaultQuestion, answer |-> SqlDefaultAnswer]}

\* C4: ArrowDown selects the smallest active identifier above the selection, ArrowUp the
\* largest below it, and each leaves the selection alone when there is none.
C4_Step ==
    LET above == {r \in Active(cards) : r > line_selected}
        below == {r \in Active(cards) : r < line_selected}
        got == frame'.after_key
    IN  /\ frame'.key = "ArrowDown" =>
            IF above = {} THEN got = line_selected
            ELSE got \in above /\ \A r \in above : got <= r
        /\ frame'.key = "ArrowUp" =>
            IF below = {} THEN got = line_selected
            ELSE got \in below /\ \A r \in below : r <= got
C4_Navigation == [][C4_Step]_vars

C4_Witness ==
    /\ frame.key = "ArrowUp"
    /\ frame.after_key = 1
    /\ line_selected = 1
    /\ Deleted(cards) = {2}
    /\ Active(cards) = {1, 3}

\* C5: an edit of one field of the selected card is what a later fetch of that card
\* returns; the card's other fields and the other cards keep their values; an edit
\* while the selection names no card changes no row.
C5_Step ==
    frame'.edit # "none" =>
        LET id == line_selected'
            f == frame'.edit
        IN  /\ id \in Rowids(cards') => SelectCard(cards', id)[f] = frame'.text
            /\ \A c \in cards :
                   /\ Cardinality({d \in cards' : d.rowid = c.rowid}) = 1
                   /\ \A g \in Fields :
                          (c.rowid # id \/ g # f) => SelectCard(cards', c.rowid)[g] = c[g]
            /\ \A d \in cards' :
                   d.rowid \notin Rowids(cards) =>
                       \A g \in Fields : (d.rowid # id \/ g # f) => d[g] = CardDefault[g]
            /\ (id \notin Rowids(cards') /\ frame'.key = "None") => cards' = cards
C5_UpdateField == [][C5_Step]_vars

C5_Witness ==
    /\ frame.edit = "question"
    /\ line_selected = 2
    /\ SelectCard(cards, 2).question = "x"
    /\ SelectCard(cards, 2).title = ""
    /\ Rowids(cards) = {1, 2, 3}
    /\ \A g \in Fields : SelectCard(cards, 1)[g] = "" /\ SelectCard(cards, 3)[g] = ""

\* The no-op half of C5 happens: a text is typed while no card is selected.
C5_WitnessNoCard ==
    /\ frame.edit = "title"
    /\ line_selected = 0
    /\ cards # {}

\* C6: while nothing is soft-deleted, a frame after N Enter presses lists N pairwise
\* distinct identifiers, and an identifier listed stays listed in later frames.
C6_State ==
    (Deleted(cards) = {} /\ frame.drawn) =>
        /\ Len(frame.listed) = n_enter
        /\ Cardinality(Listed(frame)) = n_enter
C6_Step ==
    (Deleted(cards') = {} /\ frame.drawn /\ frame'.drawn) =>
        Listed(frame) \subseteq Listed(frame')
C6_InsertsListed == [](C6_State) /\ [][C6_Step]_vars

C6_Witness ==
    /\ n_enter = 3
    /\ frame.listed = <<1, 2, 3>>
    /\ frame.key = "ArrowDown"

\* C10: the selection is 0 or an active card, and Backspace selects the smallest active
\* identifier above the soft-deleted one, or 0 when there is none.
C10_State == line_selected = 0 \/ line_selected \in Active(cards)
C10_Step ==
    frame'.key = "Backspace" =>
        LET above == {r \in Active(cards') : r > line_selected}
            got == frame'.after_key
        IN  /\ line_selected \notin Active(cards')
            /\ IF above = {} THEN got = 0
               ELSE got \in above /\ \A r \in above : got <= r
C10_SelectionActive == [](C10_State) /\ [][C10_Step]_vars

C10_Witness ==
    /\ frame.key = "Backspace"
    /\ frame.after_key = 0
    /\ line_selected = 0
    /\ Deleted(cards) = {2}
    /\ Active(cards) = {1}

\* C2: a frame never observes the result of a fetch other than the one started last.
C2_OnlyLatestObserved ==
    /\ polled.kind = "ready" => polled.result.by = n_fetches
    /\ (promise.some /\ promise.ready) => promise.result.by = promise.id /\ promise.id = n_fetches

\* Fetch 2 was started while fetch 1 was in flight, completed first and is what the frame shows.
C2_Witness ==
    /\ polled.kind = "ready"
    /\ polled.result.by = 2
    /\ \E req \in inflight : req.id = 1

SetCount(resource) ==
    (IF resource.image THEN 1 ELSE 0) + (IF resource.text THEN 1 ELSE 0)
    + (IF resource.colored_text THEN 1 ELSE 0)

Has(reqs, id) == \E req \in reqs : req.id = id

\* C8: a stored handle becomes ready only by the callback of its own fetch, keeps its
\* result while no fetch is started, is pending again once one is, and stays pending
\* while its callback has not run.
C8_Step ==
    /\ n_fetches' # n_fetches =>
           promise' = [some |-> TRUE, id |-> n_fetches', ready |-> FALSE, result |-> NoResult]
    /\ (promise.some /\ promise'.some /\ n_fetches' = n_fetches) =>
           /\ promise'.id = promise.id
           /\ promise.ready => promise' = promise
           /\ (~promise.ready /\ promise'.ready) =>
                  /\ promise'.result.by = promise.id
                  /\ Has(inflight, promise.id) /\ ~Has(inflight', promise.id)
           /\ (~promise.ready /\ Has(inflight', promise.id)) => ~promise'.ready
    /\ (polled' # polled /\ promise'.some) => polled' = Poll(promise')
C8_HandleLifecycle == [][C8_Step]_vars

\* A result is still shown in a frame after the URL field was retyped without a submission.
C8_Witness ==
    /\ polled.kind = "ready"
    /\ polled.result.ok
    /\ polled.result.by = 2
    /\ url # polled.result.resource.url
    /\ inflight = {}

\* C9 as claimed: the byte cache holds bytes for at most one URL.
C9_AtMostOneCached == Cardinality(image_bytes) <= 1

====
